---- MODULE Spec2Model ----
(***************************************************************************)
(* AERAS backend (src/aeras-backend/server.js): the ride lifecycle, the    *)
(* acceptance transaction, the 60 s watchdog and the points ledger.        *)
(*                                                                         *)
(* Granularity.  Every action is the execution of ONE SQL statement on the *)
(* single shared sqlite connection `db` together with the JavaScript       *)
(* callback that runs when it completes (which answers the caller and/or   *)
(* issues the next statement).  Handlers of different requests interleave  *)
(* freely between statements; inside one handler statements run in program *)
(* order.                                                                  *)
(*                                                                         *)
(* Transactions.  There is one connection, hence one transaction for the   *)
(* whole process: every write made while it is open belongs to it,         *)
(* whoever made it, and ROLLBACK undoes all of them.                       *)
(*                                                                         *)
(* Statement errors.  A statement issued with a callback hands its error   *)
(* to the callback.  A statement issued WITHOUT a callback (BEGIN, COMMIT, *)
(* ROLLBACK, the points_history INSERTs, ...) reports its error as an      *)
(* 'error' event on an emitter nobody listens to; server.js installs no    *)
(* handler, so Node throws it as an uncaught exception and the process     *)
(* exits.  The timers and the handlers in flight die with it and sqlite    *)
(* discards the open transaction.                                          *)
(***************************************************************************)
EXTENDS Integers, Sequences, FiniteSets, TLC

VARIABLES
  rides,      \* table rides: a sequence, rideID = index (AUTOINCREMENT)
  rickshaws,  \* table rickshaws: RickshawIDs -> row (registered = row exists)
  history,    \* table points_history: a sequence, historyID = index
  txn,        \* the connection's transaction: open? and the state at BEGIN
  procs,      \* the request handlers in flight: slot -> position and locals
  timers,     \* the armed setTimeout watchdogs
  now,        \* the clock behind CURRENT_TIMESTAMP / new Date()
  server,     \* "up" | "crashed"
  accepted,   \* history: rideID -> the rickshaws answered success=true by accept, in order
  refused,    \* history: number of success=false answers of accept (counted up to MaxRefused)
  device      \* the driver device: its globals, its position, the POST it sent last

vars == <<rides, rickshaws, history, txn, procs, timers, now, server, accepted, refused,
         device>>

(***************************** bounds **************************************)
MaxRides == 2
MaxProcs == 2
MaxHist == 3
MaxTime == 3
TicksPerDay == 2                \* the clock counts half days
MaxAnswers == 2
MaxRefused == 1

(***************************** constants ***********************************)
NULL == "NULL"
NoTime == 0                     \* a DATETIME column that is NULL; clock readings are >= 1
NoRide == 0                     \* points_history.rideID that is NULL; ride ids are >= 1
DefaultExpiryDays == 180
RickshawOrder == <<"R1", "R2">>   \* the rickshaw ids, in the order of the primary key
RickshawIDs == {RickshawOrder[i] : i \in DOMAIN RickshawOrder}
Blocks == {"CUET_CAMPUS", "PAHARTOLI", "NOAPARA", "RAOJAN"}
RideIDs == 1..MaxRides
Procs == 1..MaxProcs

(***************************** pure functions *******************************)
\* (a variant: the 50 m boundary falls in the upper band)
calculatePointsExclusive(distanceMeters) ==
  IF distanceMeters <= 0 THEN 10
  ELSE IF distanceMeters < 50
       THEN LET penalty == distanceMeters \div 10
            IN IF 10 - penalty > 8 THEN 10 - penalty ELSE 8
       ELSE IF distanceMeters <= 100 THEN 5 ELSE 0

\* calculatePoints, on a distance in whole metres
calculatePoints(distanceMeters) ==
  IF distanceMeters <= 0 THEN 10
  ELSE IF distanceMeters <= 50
       THEN LET penalty == distanceMeters \div 10
            IN IF 10 - penalty > 8 THEN 10 - penalty ELSE 8
       ELSE IF distanceMeters <= 100 THEN 5 ELSE 0

\* the status CompleteRide assigns
completeStatus(distanceMeters) ==
  IF distanceMeters <= 100 THEN "COMPLETED" ELSE "PENDING_REVIEW"

(***************************** rows *****************************************)
NewRide(blockID, destination) ==
  [rickshawID |-> NULL, pickupBlock |-> blockID, destination |-> destination,
   status |-> "PENDING", pointsAwarded |-> 0,
   requestTime |-> now, acceptTime |-> NoTime, pickupTime |-> NoTime, dropTime |-> NoTime]

NoRickshaw == [registered |-> FALSE, status |-> "AVAILABLE", totalPoints |-> 0]
NewRickshaw == [registered |-> TRUE, status |-> "AVAILABLE", totalPoints |-> 0]

\* (a variant: the amount goes to the other column)
HistoryRowSwapped(rick, rideID, earned, spent, type) ==
  [rickshawID |-> rick, rideID |-> rideID, pointsEarned |-> spent,
   pointsSpent |-> earned, transactionType |-> type, transactionDate |-> now]

\* a points_history row: the columns the INSERT names, pointsEarned and pointsSpent
\* DEFAULT 0, transactionDate DEFAULT CURRENT_TIMESTAMP
HistoryRow(rick, rideID, earned, spent, type) ==
  [rickshawID |-> rick, rideID |-> rideID, pointsEarned |-> earned,
   pointsSpent |-> spent, transactionType |-> type, transactionDate |-> now]

Idle == [op |-> "idle", pc |-> "idle", rideID |-> NoRide, rick |-> NULL,
         n |-> 0, m |-> 0, rows |-> <<>>, coord |-> NULL]

NoTxn == [active |-> FALSE, rides |-> <<>>, rickshaws |-> [k \in RickshawIDs |-> NoRickshaw],
          history |-> <<>>]

RideExists(r) == r \in DOMAIN rides

(***************************** the process **********************************)
\* A handler finishes: its slot is free, and no watchdog waits for it any more.
\* (A watchdog fires 60 s after it was armed; the handlers that were in flight at
\* that moment last milliseconds, so they have finished when it fires.)
ReleasedTimers(p) ==
  [i \in DOMAIN timers |-> [timers[i] EXCEPT !.waitFor = @ \ {p}]]

\* A ROLLBACK also undoes the INSERT of every ride requested since BEGIN (and the
\* AUTOINCREMENT counter with it, so the next ride gets the same id).  The timer of
\* such a ride stays armed and is keyed by the id alone; own records that the ride
\* it was armed for is gone.
Orphaned(ts, n) ==
  [i \in DOMAIN ts |-> [ts[i] EXCEPT !.own = @ /\ ts[i].rideID <= n]]

Finish(p) ==
  /\ procs' = [procs EXCEPT ![p] = Idle]
  /\ timers' = ReleasedTimers(p)

\* An error of a statement that has no callback: uncaught exception, the process
\* exits; sqlite discards the open transaction when the file is next opened.
Crash ==
  /\ server' = "crashed"
  /\ procs' = [p \in Procs |-> Idle]
  /\ timers' = <<>>
  /\ txn' = NoTxn
  /\ rides' = IF txn.active THEN txn.rides ELSE rides
  /\ rickshaws' = IF txn.active THEN txn.rickshaws ELSE rickshaws
  /\ history' = IF txn.active THEN txn.history ELSE history
  /\ UNCHANGED <<now, accepted, refused, device>>

(***************************** the driver device ****************************)
\* The globals of the sketch after setup(): no ride (currentRideID ""), both flags
\* false, the target a zero-initialised Location, currentLat/currentLng the
\* coordinates of CUET_CAMPUS.  The position is kept as the place it is measured
\* from and the range: "at" (within 5 m), "near" (within 100 m), "far".
NoPlace == ""
NoPost == [route |-> "none", rideID |-> NoRide]
DeviceBoot ==
  [currentRideID |-> NoRide, pickupLocation |-> NoPlace, destinationLocation |-> NoPlace,
   onActiveRide |-> FALSE, pickupConfirmed |-> FALSE,
   targetLocation |-> NoPlace, position |-> [place |-> "CUET_CAMPUS", range |-> "at"],
   posted |-> NoPost]

Init ==
  /\ rides = <<>>
  /\ rickshaws = [k \in RickshawIDs |-> NoRickshaw]
  /\ history = <<>>
  /\ txn = NoTxn
  /\ procs = [p \in Procs |-> Idle]
  /\ timers = <<>>
  /\ now = 1
  /\ server = "up"
  /\ accepted = [r \in RideIDs |-> <<>>]
  /\ refused = 0
  /\ device = DeviceBoot


(***************************** one-statement handlers ***********************)
\* POST /api/ride/request: INSERT a PENDING ride, arm its watchdog, answer the id.
\* The watchdog closes over this.lastID; every handler now in flight will have
\* finished long before it fires.
RequestRide(blockID, destination) ==
  /\ server = "up"
  /\ rides' = Append(rides, NewRide(blockID, destination))
  /\ timers' = Append(timers, [rideID |-> Len(rides) + 1, pc |-> "armed",
                               waitFor |-> {p \in Procs : procs[p].op # "idle"},
                               own |-> TRUE])
  /\ UNCHANGED <<rickshaws, history, txn, procs, now, server, accepted, refused, device>>

\* POST /api/rickshaw/register: INSERT OR REPLACE names seven columns; the row it
\* replaces is deleted, so totalPoints and status fall back to their DEFAULTs.
RegisterRickshaw(rick) ==
  /\ server = "up"
  /\ rickshaws' = [rickshaws EXCEPT ![rick] = NewRickshaw]
  /\ UNCHANGED <<rides, history, txn, procs, timers, now, server, accepted, refused, device>>

\* (a variant: the UPDATE does not name the status)
ConfirmPickupAnyStatus(rideID) ==
  /\ server = "up"
  /\ IF RideExists(rideID)
     THEN rides' = [rides EXCEPT ![rideID].status = "PICKUP", ![rideID].pickupTime = now]
     ELSE rides' = rides
  /\ UNCHANGED <<rickshaws, history, txn, procs, timers, now, server, accepted, refused, device>>

\* POST /api/ride/pickup: UPDATE ... WHERE rideID = ? AND status = 'ACCEPTED';
\* no row changed is answered 400 'Ride not in accepted state'.
ConfirmPickup(rideID) ==
  /\ server = "up"
  /\ IF RideExists(rideID) /\ rides[rideID].status = "ACCEPTED"
     THEN rides' = [rides EXCEPT ![rideID].status = "PICKUP", ![rideID].pickupTime = now]
     ELSE rides' = rides
  /\ UNCHANGED <<rickshaws, history, txn, procs, timers, now, server, accepted, refused, device>>

\* time passes
Tick ==
  /\ server = "up"
  /\ now < MaxTime
  /\ now' = now + 1
  /\ UNCHANGED <<rides, rickshaws, history, txn, procs, timers, server, accepted, refused, device>>

(***************************** the watchdog *********************************)
RemoveAt(s, i) == [j \in 1..(Len(s) - 1) |-> IF j < i THEN s[j] ELSE s[j + 1]]

\* setTimeout callback: SELECT status; its callback issues the UPDATE only if the
\* row read is PENDING.
WatchdogFire(i) ==
  /\ server = "up"
  /\ i \in DOMAIN timers
  /\ timers[i].pc = "armed"
  /\ timers[i].waitFor = {}
  /\ IF RideExists(timers[i].rideID) /\ rides[timers[i].rideID].status = "PENDING"
     THEN timers' = [timers EXCEPT ![i].pc = "write"]
     ELSE timers' = RemoveAt(timers, i)
  /\ UNCHANGED <<rides, rickshaws, history, txn, procs, now, server, accepted, refused, device>>

\* (a variant: the watchdog writes the wrong status)
WatchdogCancelRide(rideID) ==
  IF RideExists(rideID) THEN [rides EXCEPT ![rideID].status = "CANCELLED"] ELSE rides

\* the UPDATE the watchdog issued: WHERE rideID = ? only
WatchdogTimeoutRide(rideID) ==
  IF RideExists(rideID) THEN [rides EXCEPT ![rideID].status = "TIMEOUT"] ELSE rides

WatchdogWrite(i) ==
  /\ server = "up"
  /\ i \in DOMAIN timers
  /\ timers[i].pc = "write"
  /\ rides' = WatchdogTimeoutRide(timers[i].rideID)
  /\ timers' = RemoveAt(timers, i)
  /\ UNCHANGED <<rickshaws, history, txn, procs, now, server, accepted, refused, device>>

(***************************** POST /api/ride/accept ************************)
\* the success=true answers recorded for a ride
Successes(rideID) == Len(accepted[rideID])

\* one more success=false answer
Refuse == IF refused < MaxRefused THEN refused + 1 ELSE refused

\* BEGIN TRANSACTION (no callback): inside an open transaction it is an error.
BeginTransaction(p, rideID, rick) ==
  IF txn.active
  THEN Crash
  ELSE /\ txn' = [active |-> TRUE, rides |-> rides, rickshaws |-> rickshaws,
                  history |-> history]
       /\ procs' = [procs EXCEPT ![p] = [Idle EXCEPT !.op = "accept", !.pc = "select",
                                                     !.rideID = rideID, !.rick = rick]]
       /\ UNCHANGED <<rides, rickshaws, history, timers, now, server, accepted, refused, device>>

\* The request arrives (inside db.serialize the handler queues BEGIN TRANSACTION
\* and the SELECT) and BEGIN runs.
AcceptBegin(p, rideID, rick) ==
  /\ server = "up"
  /\ procs[p].op = "idle"
  /\ Successes(rideID) < MaxAnswers
  /\ BeginTransaction(p, rideID, rick)

\* BEGIN of a request that has arrived before
AcceptBeginQueued(p) ==
  /\ server = "up"
  /\ procs[p].op = "accept" /\ procs[p].pc = "begin"
  /\ BeginTransaction(p, procs[p].rideID, procs[p].rick)

\* SELECT * FROM rides WHERE rideID = ?; absent or not PENDING: ROLLBACK is issued
\* and the caller is answered success=false 'Ride already taken by another puller'.
AcceptSelect(p) ==
  /\ server = "up"
  /\ procs[p].op = "accept" /\ procs[p].pc = "select"
  /\ LET r == procs[p].rideID IN
     IF RideExists(r) /\ rides[r].status = "PENDING"
     THEN /\ procs' = [procs EXCEPT ![p].pc = "update"]
          /\ UNCHANGED refused
     ELSE /\ procs' = [procs EXCEPT ![p].pc = "rollback"]
          /\ refused' = Refuse
  /\ UNCHANGED <<rides, rickshaws, history, txn, timers, now, server, accepted, device>>

\* (a variant: the UPDATE without its AND status = 'PENDING')
AcceptMatchesAnyStatus(r) == RideExists(r)

\* The rows UPDATE rides ... WHERE rideID = ? AND status = 'PENDING' changes
AcceptMatches(r) == RideExists(r) /\ rides[r].status = "PENDING"

\* The conditional UPDATE and its callback: no row changed issues ROLLBACK and
\* answers success=false 'Race condition'; otherwise the callback issues the
\* rickshaw UPDATE and COMMIT and answers success=true at once.
AcceptUpdate(p) ==
  /\ server = "up"
  /\ procs[p].op = "accept" /\ procs[p].pc = "update"
  /\ LET r == procs[p].rideID IN
     IF AcceptMatches(r)
     THEN /\ rides' = [rides EXCEPT ![r].status = "ACCEPTED",
                                    ![r].rickshawID = procs[p].rick,
                                    ![r].acceptTime = now]
          /\ procs' = [procs EXCEPT ![p].pc = "rickshaw"]
          /\ accepted' = [accepted EXCEPT ![r] = Append(@, procs[p].rick)]
          /\ UNCHANGED refused
     ELSE /\ procs' = [procs EXCEPT ![p].pc = "rollback"]
          /\ refused' = Refuse
          /\ UNCHANGED <<rides, accepted, device>>
  /\ UNCHANGED <<rickshaws, history, txn, timers, now, server, device>>

\* UPDATE rickshaws SET status = "ON_RIDE" WHERE rickshawID = ?
AcceptRickshaw(p) ==
  /\ server = "up"
  /\ procs[p].op = "accept" /\ procs[p].pc = "rickshaw"
  /\ rickshaws' = IF rickshaws[procs[p].rick].registered
                  THEN [rickshaws EXCEPT ![procs[p].rick].status = "ON_RIDE"]
                  ELSE rickshaws
  /\ procs' = [procs EXCEPT ![p].pc = "commit"]
  /\ UNCHANGED <<rides, history, txn, timers, now, server, accepted, refused, device>>

\* COMMIT (no callback): with no transaction open it is an error.
AcceptCommit(p) ==
  /\ server = "up"
  /\ procs[p].op = "accept" /\ procs[p].pc = "commit"
  /\ IF ~txn.active
     THEN Crash
     ELSE /\ txn' = NoTxn
          /\ Finish(p)
          /\ UNCHANGED <<rides, rickshaws, history, now, server, accepted, refused, device>>

\* ROLLBACK (no callback): restores every table to its state at BEGIN; with no
\* transaction open it is an error.
AcceptRollback(p) ==
  /\ server = "up"
  /\ procs[p].op = "accept" /\ procs[p].pc = "rollback"
  /\ IF ~txn.active
     THEN Crash
     ELSE /\ rides' = txn.rides
          /\ rickshaws' = txn.rickshaws
          /\ history' = txn.history
          /\ txn' = NoTxn
          /\ procs' = [procs EXCEPT ![p] = Idle]
          /\ timers' = Orphaned(ReleasedTimers(p), Len(txn.rides))
          /\ UNCHANGED <<now, server, accepted, refused, device>>


(***************************** the points log *******************************)
\* rows the handlers in flight may still append (bounds the log)
PendingRows ==
  Cardinality({q \in Procs : procs[q].op \in {"complete", "adjust", "redeem"}})
  + Cardinality({q \in Procs : procs[q].op = "expire" /\ Len(procs[q].rows) > 0})
  + Cardinality({q \in Procs : procs[q].op = "expire" /\ Len(procs[q].rows) > 1})

HistoryRoom(k) == Len(history) + PendingRows + k <= MaxHist

\* INSERT INTO points_history (no callback); rickshawID is NOT NULL, so a NULL
\* one is a constraint error.
InsertHistory(p, row) ==
  IF row.rickshawID = NULL
  THEN Crash
  ELSE /\ history' = Append(history, row)
       /\ Finish(p)
       /\ UNCHANGED <<rides, rickshaws, txn, now, server, accepted, refused, device>>

\* UPDATE rickshaws SET totalPoints = totalPoints + ? [, status = ?] WHERE rickshawID = ?
\* (status = NULL: the statement leaves the status alone)
UpdatedRickshaws(rick, delta, status) ==
  IF rick \in RickshawIDs /\ rickshaws[rick].registered
  THEN [rickshaws EXCEPT ![rick].totalPoints = @ + delta,
                         ![rick].status = IF status = NULL THEN @ ELSE status]
  ELSE rickshaws

(***************************** POST /api/ride/complete **********************)
\* (a variant: a LEFT JOIN, which finds the ride whatever its destination)
CompleteFindsAnyDestination(rideID) == RideExists(rideID)

\* The row SELECT ... FROM rides r JOIN locations l ON r.destination = l.blockID
\* WHERE r.rideID = ? returns: the ride, if its destination is a catalog block
CompleteFinds(rideID) == RideExists(rideID) /\ rides[rideID].destination \in Blocks

\* SELECT r.*, l.latitude ... FROM rides r JOIN locations l ON r.destination =
\* l.blockID WHERE r.rideID = ?: no row (no such ride, or a destination outside the
\* catalog) is answered 404.  The callback computes the distance of the drop from
\* the destination (d, here in whole metres), the points and the status, and issues
\* the UPDATE of the ride.
CompleteSelect(p, rideID, d) ==
  /\ server = "up"
  /\ procs[p].op = "idle"
  /\ HistoryRoom(1)
  /\ IF CompleteFinds(rideID)
     THEN procs' = [procs EXCEPT ![p] = [Idle EXCEPT !.op = "complete", !.pc = "ride",
                                                     !.rideID = rideID,
                                                     !.rick = rides[rideID].rickshawID,
                                                     !.n = calculatePoints(d),
                                                     !.m = d]]
     ELSE procs' = procs
  /\ UNCHANGED <<rides, rickshaws, history, txn, timers, now, server, accepted, refused, device>>

\* The rows UPDATE rides SET status = ?, dropTime = ... WHERE rideID = ? changes
CompleteMatches(r) == RideExists(r)

\* The UPDATE of the ride; its callback issues the rickshaw UPDATE (and, for
\* points > 0, the points_history INSERT) and answers success.
CompleteRide(p) ==
  /\ server = "up"
  /\ procs[p].op = "complete" /\ procs[p].pc = "ride"
  /\ LET r == procs[p].rideID IN
     rides' = IF CompleteMatches(r)
              THEN [rides EXCEPT ![r].status = completeStatus(procs[p].m),
                                 ![r].dropTime = now,
                                 ![r].pointsAwarded = procs[p].n]
              ELSE rides
  /\ procs' = [procs EXCEPT ![p].pc = IF procs[p].n > 0 THEN "credit" ELSE "release"]
  /\ UNCHANGED <<rickshaws, history, txn, timers, now, server, accepted, refused, device>>

\* points > 0: UPDATE rickshaws SET totalPoints = totalPoints + ?, status = "AVAILABLE"
CompleteCredit(p) ==
  /\ server = "up"
  /\ procs[p].op = "complete" /\ procs[p].pc = "credit"
  /\ rickshaws' = UpdatedRickshaws(procs[p].rick, procs[p].n, "AVAILABLE")
  /\ procs' = [procs EXCEPT ![p].pc = "log"]
  /\ UNCHANGED <<rides, history, txn, timers, now, server, accepted, refused, device>>

\* points > 0: INSERT INTO points_history (..., 'EARNED', ...)
CompleteLog(p) ==
  /\ server = "up"
  /\ procs[p].op = "complete" /\ procs[p].pc = "log"
  /\ InsertHistory(p, HistoryRow(procs[p].rick, procs[p].rideID, procs[p].n, 0, "EARNED"))

\* points = 0: UPDATE rickshaws SET status = "AVAILABLE"
CompleteRelease(p) ==
  /\ server = "up"
  /\ procs[p].op = "complete" /\ procs[p].pc = "release"
  /\ rickshaws' = UpdatedRickshaws(procs[p].rick, 0, "AVAILABLE")
  /\ Finish(p)
  /\ UNCHANGED <<rides, history, txn, now, server, accepted, refused, device>>

(***************************** POST /api/ride/cancel ************************)
\* (a variant: the UPDATE does not name the caller)
CancelMatchesAnyRickshaw(r, rick) ==
  /\ RideExists(r)
  /\ rides[r].status \in {"ACCEPTED", "PICKUP"}

\* The rows UPDATE rides SET status = 'PENDING', rickshawID = NULL, acceptTime = NULL
\* WHERE rideID = ? AND rickshawID = ? AND status IN ('ACCEPTED', 'PICKUP') changes
CancelMatches(r, rick) ==
  /\ RideExists(r)
  /\ rides[r].rickshawID = rick
  /\ rides[r].status \in {"ACCEPTED", "PICKUP"}

\* no row changed is answered 400 'Cannot cancel ride'; otherwise the callback
\* issues the rickshaw UPDATE and answers success.
CancelRide(p, rideID, rick) ==
  /\ server = "up"
  /\ procs[p].op = "idle"
  /\ IF CancelMatches(rideID, rick)
     THEN /\ rides' = [rides EXCEPT ![rideID].status = "PENDING",
                                    ![rideID].rickshawID = NULL,
                                    ![rideID].acceptTime = NoTime]
          /\ procs' = [procs EXCEPT ![p] = [Idle EXCEPT !.op = "cancel", !.pc = "release",
                                                        !.rideID = rideID, !.rick = rick]]
     ELSE UNCHANGED <<rides, procs, device>>
  /\ UNCHANGED <<rickshaws, history, txn, timers, now, server, accepted, refused, device>>

\* UPDATE rickshaws SET status = "AVAILABLE" WHERE rickshawID = ?
CancelRelease(p) ==
  /\ server = "up"
  /\ procs[p].op = "cancel" /\ procs[p].pc = "release"
  /\ rickshaws' = UpdatedRickshaws(procs[p].rick, 0, "AVAILABLE")
  /\ Finish(p)
  /\ UNCHANGED <<rides, history, txn, now, server, accepted, refused, device>>

(***************************** POST /api/admin/adjust-points ****************)
\* SELECT rickshawID, pointsAwarded FROM rides WHERE rideID = ?; no row is answered
\* 404; the callback computes pointDiff and issues the UPDATE of the ride.
AdjustSelect(p, rideID, newPoints) ==
  /\ server = "up"
  /\ procs[p].op = "idle"
  /\ HistoryRoom(1)
  /\ IF RideExists(rideID)
     THEN procs' = [procs EXCEPT ![p] = [Idle EXCEPT !.op = "adjust", !.pc = "ride",
                                                     !.rideID = rideID,
                                                     !.rick = rides[rideID].rickshawID,
                                                     !.n = newPoints,
                                                     !.m = newPoints - rides[rideID].pointsAwarded]]
     ELSE procs' = procs
  /\ UNCHANGED <<rides, rickshaws, history, txn, timers, now, server, accepted, refused, device>>

\* UPDATE rides SET pointsAwarded = ?, status = "COMPLETED" WHERE rideID = ?; its
\* callback issues the rickshaw UPDATE and the INSERT and answers pointDiff.
AdjustRide(p) ==
  /\ server = "up"
  /\ procs[p].op = "adjust" /\ procs[p].pc = "ride"
  /\ LET r == procs[p].rideID IN
     rides' = IF RideExists(r)
              THEN [rides EXCEPT ![r].pointsAwarded = procs[p].n, ![r].status = "COMPLETED"]
              ELSE rides
  /\ procs' = [procs EXCEPT ![p].pc = "credit"]
  /\ UNCHANGED <<rickshaws, history, txn, timers, now, server, accepted, refused, device>>

\* UPDATE rickshaws SET totalPoints = totalPoints + pointDiff
AdjustCredit(p) ==
  /\ server = "up"
  /\ procs[p].op = "adjust" /\ procs[p].pc = "credit"
  /\ rickshaws' = UpdatedRickshaws(procs[p].rick, procs[p].m, NULL)
  /\ procs' = [procs EXCEPT ![p].pc = "log"]
  /\ UNCHANGED <<rides, history, txn, timers, now, server, accepted, refused, device>>

\* INSERT INTO points_history (..., pointsEarned = pointDiff, 'ADJUSTED', ...)
AdjustLog(p) ==
  /\ server = "up"
  /\ procs[p].op = "adjust" /\ procs[p].pc = "log"
  /\ InsertHistory(p, HistoryRow(procs[p].rick, procs[p].rideID, procs[p].m, 0, "ADJUSTED"))

(***************************** POST /api/points/redeem **********************)
\* SELECT totalPoints; no row is answered 404, a balance below the amount 400
\* 'Insufficient points'; otherwise the callback issues the debit.
RedeemSelect(p, rick, points) ==
  /\ server = "up"
  /\ procs[p].op = "idle"
  /\ HistoryRoom(1)
  /\ IF rickshaws[rick].registered /\ ~(rickshaws[rick].totalPoints < points)
     THEN procs' = [procs EXCEPT ![p] = [Idle EXCEPT !.op = "redeem", !.pc = "debit",
                                                     !.rick = rick, !.n = points,
                                                     !.m = rickshaws[rick].totalPoints]]
     ELSE procs' = procs
  /\ UNCHANGED <<rides, rickshaws, history, txn, timers, now, server, accepted, refused, device>>

\* UPDATE rickshaws SET totalPoints = totalPoints - ?; its callback issues the
\* INSERT and answers newBalance = (the balance read) - points.
RedeemDebit(p) ==
  /\ server = "up"
  /\ procs[p].op = "redeem" /\ procs[p].pc = "debit"
  /\ rickshaws' = UpdatedRickshaws(procs[p].rick, 0 - procs[p].n, NULL)
  /\ procs' = [procs EXCEPT ![p].pc = "log"]
  /\ UNCHANGED <<rides, history, txn, timers, now, server, accepted, refused, device>>

\* INSERT INTO points_history (rickshawID, pointsSpent, 'SPENT', ...)
RedeemLog(p) ==
  /\ server = "up"
  /\ procs[p].op = "redeem" /\ procs[p].pc = "log"
  /\ InsertHistory(p, HistoryRow(procs[p].rick, NoRide, 0, procs[p].n, "SPENT"))


(***************************** POST /api/admin/expire-points ****************)
\* the calendar date of a clock reading
DateOf(t) == t \div TicksPerDay

\* const expiryDays = req.body.days || 180
expiryDaysOf(days) == IF days = 0 THEN DefaultExpiryDays ELSE days

\* expiryDate = new Date(); expiryDate.setDate(expiryDate.getDate() - expiryDays)
expiryDate(days) == now - expiryDaysOf(days) * TicksPerDay

\* h.transactionDate < ? compares two TEXT values: the column holds what
\* CURRENT_TIMESTAMP wrote, 'YYYY-MM-DD HH:MM:SS', and the parameter is
\* expiryDate.toISOString(), 'YYYY-MM-DDTHH:MM:SS.sssZ'.  With equal dates the
\* first difference is ' ' against 'T', and ' ' sorts first: a transaction made on
\* the date of the threshold compares less, whatever its time of day.
TextBefore(t, threshold) == DateOf(t) <= DateOf(threshold)

\* WHERE h.transactionType = 'EARNED' AND h.transactionDate < ? AND NOT EXISTS
\* (SELECT 1 FROM points_history h2 WHERE h2.historyID = h.historyID AND
\* h2.transactionType = 'EXPIRED')
Expirable(i, days) ==
  /\ history[i].transactionType = "EARNED"
  /\ TextBefore(history[i].transactionDate, expiryDate(days))
  /\ ~ \E j \in DOMAIN history : j = i /\ history[j].transactionType = "EXPIRED"

RECURSIVE SumEarned(_, _, _)
\* SUM(h.pointsEarned) over the selected rows of one rickshaw, rows 1..i
SumEarned(i, rick, days) ==
  IF i = 0 THEN 0
  ELSE SumEarned(i - 1, rick, days)
       + (IF history[i].rickshawID = rick /\ Expirable(i, days)
          THEN history[i].pointsEarned ELSE 0)

\* ... GROUP BY h.rickshawID: one row per rickshaw that has a selected row
ExpiredRows(days) ==
  LET groups == SelectSeq(RickshawOrder,
                  LAMBDA k : \E i \in DOMAIN history :
                               history[i].rickshawID = k /\ Expirable(i, days))
  IN [g \in DOMAIN groups |->
        [rickshawID |-> groups[g],
         expiredPoints |-> SumEarned(Len(history), groups[g], days)]]

\* The SELECT and its callback: no row answers expired: 0; otherwise the callback
\* issues, row by row, the debit and the INSERT, and answers the total.
ExpireSelect(p, days) ==
  /\ server = "up"
  /\ procs[p].op = "idle"
  /\ HistoryRoom(Len(ExpiredRows(days)))
  /\ procs' = IF ExpiredRows(days) = <<>>
              THEN procs
              ELSE [procs EXCEPT ![p] = [Idle EXCEPT !.op = "expire", !.pc = "debit",
                                                     !.rows = ExpiredRows(days)]]
  /\ UNCHANGED <<rides, rickshaws, history, txn, timers, now, server, accepted, refused, device>>

\* UPDATE rickshaws SET totalPoints = totalPoints - row.expiredPoints
ExpireDebit(p) ==
  /\ server = "up"
  /\ procs[p].op = "expire" /\ procs[p].pc = "debit"
  /\ rickshaws' = UpdatedRickshaws(Head(procs[p].rows).rickshawID,
                                   0 - Head(procs[p].rows).expiredPoints, NULL)
  /\ procs' = [procs EXCEPT ![p].pc = "log"]
  /\ UNCHANGED <<rides, history, txn, timers, now, server, accepted, refused, device>>

\* INSERT INTO points_history (rickshawID, pointsEarned = -row.expiredPoints,
\* 'EXPIRED', ...); then the next row, if any
ExpireLog(p) ==
  /\ server = "up"
  /\ procs[p].op = "expire" /\ procs[p].pc = "log"
  /\ history' = Append(history, HistoryRow(Head(procs[p].rows).rickshawID, NoRide,
                                           0 - Head(procs[p].rows).expiredPoints, 0,
                                           "EXPIRED"))
  /\ IF Len(procs[p].rows) = 1
     THEN Finish(p)
     ELSE /\ procs' = [procs EXCEPT ![p].pc = "debit", ![p].rows = Tail(@)]
          /\ UNCHANGED timers
  /\ UNCHANGED <<rides, rickshaws, txn, now, server, accepted, refused, device>>

(***************************** inputs ***************************************)
PickupBlocks == {"CUET_CAMPUS"}
Destinations == {"PAHARTOLI"}
DropDistances == {0, 150}
NewPoints == {0, 5}
RedeemAmounts == {5}
ExpiryDays == {0, 1}

(***************************** the operations *******************************)
Watchdog == \E i \in DOMAIN timers : WatchdogFire(i) \/ WatchdogWrite(i)

Accept(P) ==
  \E p \in P :
    \/ \E r \in RideIDs, k \in RickshawIDs : AcceptBegin(p, r, k)
    \/ AcceptSelect(p)
    \/ AcceptUpdate(p)
    \/ AcceptRickshaw(p)
    \/ AcceptCommit(p)
    \/ AcceptRollback(p)

Complete(P, D) ==
  \E p \in P :
    \/ \E r \in RideIDs, d \in D : CompleteSelect(p, r, d)
    \/ CompleteRide(p)
    \/ CompleteCredit(p)
    \/ CompleteLog(p)
    \/ CompleteRelease(p)

Cancel(P) ==
  \E p \in P :
    \/ \E r \in RideIDs, k \in RickshawIDs : CancelRide(p, r, k)
    \/ CancelRelease(p)

Adjust(P) ==
  \E p \in P :
    \/ \E r \in RideIDs, n \in NewPoints : AdjustSelect(p, r, n)
    \/ AdjustRide(p)
    \/ AdjustCredit(p)
    \/ AdjustLog(p)

Redeem(P) ==
  \E p \in P :
    \/ \E k \in RickshawIDs, n \in RedeemAmounts : RedeemSelect(p, k, n)
    \/ RedeemDebit(p)
    \/ RedeemLog(p)

Expire(P) ==
  \E p \in P :
    \/ \E d \in ExpiryDays : ExpireSelect(p, d)
    \/ ExpireDebit(p)
    \/ ExpireLog(p)

\* at most N rides, and N watchdogs armed
Request(N) ==
  \E b \in PickupBlocks, d \in Destinations :
    Len(rides) < N /\ Len(timers) < N /\ RequestRide(b, d)
Register == \E k \in RickshawIDs : RegisterRickshaw(k)
Pickup == \E r \in RideIDs : ConfirmPickup(r)

(***************************** specifications *******************************)
\* The life of one ride: the ride row, its watchdog and the handlers that write it.
OneRide == 1

Next ==
  \/ Request(OneRide) \/ Accept(Procs) \/ Pickup \/ Complete(Procs, DropDistances)
  \/ Cancel(Procs) \/ Watchdog

Spec == Init /\ [][Next]_vars


(***************************** the life of a ride ***************************)
Quiescent == (\A p \in Procs : procs[p].op = "idle") /\ ~txn.active

\* C2, as claimed: over any sequence of operations at most one AcceptRide ever
\* returns success for a given ride identity.
C2_AtMostOneAcceptanceEver == \A r \in RideIDs : Len(accepted[r]) <= 1

\* C2, amended: AcceptRide answers success only in the step in which its
\* conditional write finds the ride PENDING and makes it ACCEPTED for the caller;
\* a ride that is not PENDING (again) is never accepted.
C2_AcceptanceOnlyOfPendingRide ==
  [][\A r \in RideIDs :
       accepted'[r] # accepted[r] =>
         /\ RideExists(r) /\ rides[r].status = "PENDING"
         /\ r \in DOMAIN rides'
         /\ rides'[r].status = "ACCEPTED"
         /\ rides'[r].rickshawID = accepted'[r][Len(accepted'[r])]]_vars

\* a ride accepted a second time (after a cancel re-opened it)
C2_AcceptedTwice == \E r \in RideIDs : Len(accepted[r]) = 2

\* C3: the watchdog never changes a ride that is not PENDING; in particular, in
\* every interleaving with AcceptRide, its UPDATE never moves a ride that has been
\* accepted to TIMEOUT.
C3_AcceptedRideNotTimedOut ==
  [][\A i \in DOMAIN timers :
       (WatchdogWrite(i) /\ rides' # rides) =>
         rides[timers[i].rideID].status # "ACCEPTED"]_vars

\* C4: a ride never skips a state: accept writes ACCEPTED only over PENDING, pickup
\* writes PICKUP only over ACCEPTED, complete writes COMPLETED or PENDING_REVIEW
\* only over PICKUP.
C4_NoStateSkipped ==
  [][/\ \A p \in Procs :
          /\ (AcceptUpdate(p) /\ rides' # rides) =>
               rides[procs[p].rideID].status = "PENDING"
          /\ (CompleteRide(p) /\ rides' # rides) =>
               rides[procs[p].rideID].status = "PICKUP"
     /\ \A r \in RideIDs :
          (ConfirmPickup(r) /\ rides' # rides) => rides[r].status = "ACCEPTED"]_vars

\* C5: rickshawID is non-null iff status is ACCEPTED, PICKUP, COMPLETED or
\* PENDING_REVIEW.
C5_RickshawIffAssignedStatus ==
  \A r \in DOMAIN rides :
    (rides[r].rickshawID # NULL) <=>
      (rides[r].status \in {"ACCEPTED", "PICKUP", "COMPLETED", "PENDING_REVIEW"})


(***************************** two calls race for one ride ******************)
\* One PENDING ride; AcceptRide has been called for it once by every rickshaw id,
\* and no BEGIN has run yet.
RaceRide == CHOOSE r \in RideIDs : \A s \in RideIDs : r <= s

InitRace ==
  /\ now = 1
  /\ \E b \in PickupBlocks, d \in Blocks : rides = <<NewRide(b, d)>>
  /\ \E reg \in SUBSET RickshawIDs :
       rickshaws = [k \in RickshawIDs |-> IF k \in reg THEN NewRickshaw ELSE NoRickshaw]
  /\ history = <<>>
  /\ txn = NoTxn
  /\ procs = [p \in Procs |->
                IF p \in DOMAIN RickshawOrder
                THEN [Idle EXCEPT !.op = "accept", !.pc = "begin", !.rideID = RaceRide,
                                  !.rick = RickshawOrder[p]]
                ELSE Idle]
  /\ timers = <<[rideID |-> RaceRide, pc |-> "armed", waitFor |-> {}, own |-> TRUE]>>
  /\ server = "up"
  /\ accepted = [r \in RideIDs |-> <<>>]
  /\ refused = 0
  /\ device = DeviceBoot

NextRace ==
  \E p \in Procs :
    \/ AcceptBeginQueued(p)
    \/ AcceptSelect(p)
    \/ AcceptUpdate(p)
    \/ AcceptRickshaw(p)
    \/ AcceptCommit(p)
    \/ AcceptRollback(p)

SpecRace == InitRace /\ [][NextRace]_vars

NoCallInFlight == \A p \in Procs : procs[p].op = "idle"

\* C1: when both calls are over, exactly one was answered success=true, the other
\* success=false, and the ride is ACCEPTED for the caller that was told success.
C1_ExactlyOneCallWins ==
  NoCallInFlight =>
    /\ Len(accepted[RaceRide]) = 1
    /\ refused = 1
    /\ rides[RaceRide].status = "ACCEPTED"
    /\ rides[RaceRide].rickshawID = accepted[RaceRide][1]

\* C8: once a call that was answered success=true is over, the ride is ACCEPTED for
\* its rickshaw and the rickshaw (if registered) is ON_RIDE: both writes are
\* committed and nothing another AcceptRide does undoes them.
C8_AnsweredSuccessIsCommitted ==
  \A k \in RickshawIDs :
    ( /\ Len(accepted[RaceRide]) > 0
      /\ accepted[RaceRide][1] = k
      /\ \A q \in Procs : ~(procs[q].op = "accept" /\ procs[q].rick = k) ) =>
        /\ rides[RaceRide].status = "ACCEPTED"
        /\ rides[RaceRide].rickshawID = k
        /\ rickshaws[k].registered => rickshaws[k].status = "ON_RIDE"

(***************************** rickshaw status ******************************)
\* One ride and both rickshaws, registered in any order; the handlers run one at a
\* time (between their statements a registration, a pickup or a request may land).
OneAtATime == {1}

NextRickshaw ==
  \/ Request(OneRide) \/ Register \/ Accept(OneAtATime) \/ Pickup
  \/ Complete(OneAtATime, DropDistances) \/ Cancel(OneAtATime)

SpecRickshaw == Init /\ [][NextRickshaw]_vars

HoldsActiveRide(k) ==
  \E r \in DOMAIN rides :
    rides[r].rickshawID = k /\ rides[r].status \in {"ACCEPTED", "PICKUP"}

\* C7: a rickshaw is ON_RIDE exactly when a ride assigned to it is ACCEPTED or
\* PICKUP (stated for the states in which no handler is half-way and no transaction
\* is open; the claim asks it of every state).
C7_OnRideIffActiveRide ==
  Quiescent =>
    \A k \in RickshawIDs :
      rickshaws[k].registered => (rickshaws[k].status = "ON_RIDE" <=> HoldsActiveRide(k))

(***************************** the watchdog, with fairness ******************)
\* The runs in which the process stays up; the event loop runs every callback that
\* is due, so the UPDATE the watchdog has issued is eventually executed.
\* (CompleteRide calls run one at a time here; they never read or write the timers.)
NextUp ==
  /\ \/ Request(OneRide) \/ Accept(Procs) \/ Pickup
     \/ Complete(OneAtATime, DropDistances) \/ Cancel(Procs) \/ Watchdog
  /\ server' = "up"

WatchdogWrites == \E i \in DOMAIN timers : WatchdogWrite(i)

SpecWatchdog == Init /\ [][NextUp]_vars /\ WF_vars(WatchdogWrites)

\* the watchdog armed for ride r has read it PENDING and issued its UPDATE
ReadPending(r) ==
  \E i \in DOMAIN timers :
    timers[i].rideID = r /\ timers[i].pc = "write" /\ timers[i].own

InitPoints ==
  /\ now = 1
  /\ \E b \in PickupBlocks, d \in Destinations :
       rides = <<[NewRide(b, d) EXCEPT !.status = "PICKUP",
                                       !.rickshawID = RickshawOrder[1],
                                       !.acceptTime = now, !.pickupTime = now]>>
  /\ rickshaws = [k \in RickshawIDs |->
                    IF k = RickshawOrder[1]
                    THEN [NewRickshaw EXCEPT !.status = "ON_RIDE"]
                    ELSE NoRickshaw]
  /\ history = <<>>
  /\ txn = NoTxn
  /\ procs = [p \in Procs |-> Idle]
  /\ timers = <<[rideID |-> 1, pc |-> "armed", waitFor |-> {}, own |-> TRUE]>>
  /\ server = "up"
  /\ accepted = [r \in RideIDs |-> IF r = 1 THEN <<RickshawOrder[1]>> ELSE <<>>]
  /\ refused = 0
  /\ device = DeviceBoot

NextPoints ==
  \/ Register \/ Complete(Procs, DropDistances) \/ Redeem(Procs) \/ Adjust(Procs)
  \/ Expire(Procs) \/ Tick

SpecPoints == InitPoints /\ [][NextPoints]_vars

RECURSIVE SignedSum(_, _)
\* the signed sum of the transactions 1..i of rickshaw k: pointsEarned holds the
\* EARNED amount, the ADJUSTED delta and the negated EXPIRED amount, pointsSpent
\* the SPENT amount
SignedSum(i, k) ==
  IF i = 0 THEN 0
  ELSE SignedSum(i - 1, k)
       + (IF history[i].rickshawID = k
          THEN history[i].pointsEarned - history[i].pointsSpent ELSE 0)

\* C6: the cached balance of every rickshaw equals the signed sum over its
\* transactions (stated for the states in which no handler is half-way; the claim
\* asks it of every state).
C6_BalanceEqualsLedger ==
  Quiescent =>
    \A k \in RickshawIDs :
      rickshaws[k].registered => rickshaws[k].totalPoints = SignedSum(Len(history), k)

\* an EXPIRED transaction of the same rickshaw, written by a run with this
\* threshold, that already covers the EARNED transaction i
Covered(i, days) ==
  \E j \in DOMAIN history :
    /\ j > i
    /\ history[j].transactionType = "EXPIRED"
    /\ history[j].rickshawID = history[i].rickshawID
    /\ TextBefore(history[i].transactionDate,
                  history[j].transactionDate - expiryDaysOf(days) * TicksPerDay)

\* C10: a run of ExpireOlderThan that finds every EARNED transaction older than its
\* threshold already covered by an EXPIRED entry selects nothing: it debits no
\* balance, appends nothing and reports 0.
C10_NoDoubleExpiry ==
  [][\A p \in Procs, d \in ExpiryDays :
       ( /\ ExpireSelect(p, d)
         /\ \A i \in DOMAIN history :
              ( /\ history[i].transactionType = "EARNED"
                /\ TextBefore(history[i].transactionDate, expiryDate(d)) )
                => Covered(i, d) )
       => procs'[p].op = "idle"]_vars

(***************************** redeem ***************************************)
\* C11: Redeem debits only a balance that is not less than the amount, and the
\* newBalance it answers (the balance it read minus the amount) is the rickshaw's
\* cached balance after its debit.
C11_RedeemAnswersTheBalance ==
  [][\A p \in Procs :
       RedeemDebit(p) =>
         /\ ~(rickshaws[procs[p].rick].totalPoints < procs[p].n)
         /\ rickshaws'[procs[p].rick].totalPoints = procs[p].m - procs[p].n]_vars

(***************************** scoring **************************************)
\* One ride in PICKUP; CompleteRide is called with every drop distance 0..MaxDistance
\* (whole metres).
MaxDistance == 110

Distances == 0..MaxDistance

NextScore == Complete(OneAtATime, Distances)

SpecScore == InitPoints /\ [][NextScore]_vars

\* the policy as the specification tabulates it
ScoreForDistance(d) ==
  CASE d = 0              -> 10
    [] d > 0 /\ d <= 50   -> LET s == 10 - (d \div 10) IN IF s >= 8 THEN s ELSE 8
    [] d > 50 /\ d <= 100 -> 5
    [] d > 100            -> 0

\* C12: for every drop distance d the UPDATE of CompleteRide records
\* ScoreForDistance(d) points, with status COMPLETED when d <= 100 and
\* PENDING_REVIEW when d > 100.
C12_PointsAndStatusByDistance ==
  [][\A p \in Procs :
       (CompleteRide(p) /\ CompleteMatches(procs[p].rideID)) =>
         LET d == procs[p].m
             r == procs[p].rideID
         IN /\ rides'[r].pointsAwarded = ScoreForDistance(d)
            /\ d <= 100 => rides'[r].status = "COMPLETED"
            /\ d > 100 => rides'[r].status = "PENDING_REVIEW"]_vars

\* a ride completed 50 m from its destination: 8 points, COMPLETED
C12_FiftyMetres ==
  \E p \in Procs :
    /\ procs[p].op = "complete" /\ procs[p].pc = "credit" /\ procs[p].m = 50
    /\ rides[procs[p].rideID].pointsAwarded = 8
    /\ rides[procs[p].rideID].status = "COMPLETED"

(***************************** complete: the award **************************)
\* C13: for a ride that has an assigned rickshaw, CompleteRide with points > 0
\* raises that rickshaw's balance by exactly the points, makes it AVAILABLE and
\* appends one EARNED transaction for the ride; with points = 0 it makes the
\* rickshaw AVAILABLE and changes no balance and no transaction.
C13_CompleteCreditsAndReleases ==
  [][\A p \in Procs :
       procs[p].rick # NULL =>
         LET k == procs[p].rick IN
         /\ CompleteCredit(p) =>
              /\ rickshaws[k].registered
              /\ rickshaws'[k].totalPoints = rickshaws[k].totalPoints + procs[p].n
              /\ rickshaws'[k].status = "AVAILABLE"
         /\ CompleteLog(p) =>
              history' = Append(history, HistoryRow(k, procs[p].rideID, procs[p].n, 0, "EARNED"))
         /\ CompleteRelease(p) =>
              /\ rickshaws[k].registered
              /\ rickshaws' = [rickshaws EXCEPT ![k].status = "AVAILABLE"]
              /\ history' = history]_vars

(***************************** cancel ***************************************)
\* C14: CancelRide(r, k) succeeds only when ride r is assigned to k and is ACCEPTED
\* or PICKUP; it then makes the ride PENDING with rickshawID and acceptTime cleared,
\* and its second statement makes the caller's rickshaw (if it has a row)
\* AVAILABLE and changes nothing else; in every other case it is refused and
\* changes no ride and no rickshaw.
C14_CancelOnlyByAssignedRickshaw ==
  [][/\ \A p \in Procs, r \in RideIDs, k \in RickshawIDs :
          CancelRide(p, r, k) =>
            IF /\ r \in DOMAIN rides
               /\ rides[r].rickshawID = k
               /\ rides[r].status \in {"ACCEPTED", "PICKUP"}
            THEN /\ procs'[p].op = "cancel"
                 /\ rides' = [rides EXCEPT ![r].status = "PENDING",
                                           ![r].rickshawID = NULL,
                                           ![r].acceptTime = NoTime]
            ELSE /\ procs'[p].op = "idle"
                 /\ rides' = rides
                 /\ rickshaws' = rickshaws
     /\ \A p \in Procs :
          CancelRelease(p) =>
            LET k == procs[p].rick IN
            /\ rides' = rides
            /\ rickshaws[k].registered =>
                 rickshaws' = [rickshaws EXCEPT ![k].status = "AVAILABLE"]
            /\ ~rickshaws[k].registered => rickshaws' = rickshaws]_vars

\* a registered rickshaw has just cancelled the ride it held; its release is due
C14_Cancelled ==
  \E p \in Procs :
    /\ procs[p].op = "cancel"
    /\ rides[procs[p].rideID].status = "PENDING"
    /\ rides[procs[p].rideID].rickshawID = NULL
    /\ rickshaws[procs[p].rick].registered
    /\ rickshaws[procs[p].rick].status = "ON_RIDE"

(***************************** pickup ***************************************)
\* C15: ConfirmPickup(r) changes ride r only when it is ACCEPTED, to PICKUP with
\* pickupTime set; for a ride in any other status, or no ride, nothing changes; it
\* never changes another ride, a rickshaw or a points transaction.
C15_PickupOnlyOfAcceptedRide ==
  [][\A r \in RideIDs :
       ConfirmPickup(r) =>
         /\ IF r \in DOMAIN rides /\ rides[r].status = "ACCEPTED"
            THEN rides' = [rides EXCEPT ![r].status = "PICKUP", ![r].pickupTime = now]
            ELSE rides' = rides
         /\ rickshaws' = rickshaws
         /\ history' = history]_vars

\* a ride picked up after it was accepted
C15_PickedUp ==
  \E r \in DOMAIN rides :
    /\ rides[r].status = "PICKUP"
    /\ rides[r].pickupTime # NoTime
    /\ rides[r].acceptTime # NoTime
    /\ rides[r].rickshawID # NULL

(***************************** accept: the refusal **************************)
NotPending(r) == ~(r \in DOMAIN rides /\ rides[r].status = "PENDING")

\* C16: AcceptRide on a ride that is absent or not PENDING is refused, and the
\* ROLLBACK it issues leaves every ride and every rickshaw as they were.
C16_RefusedAcceptChangesNothing ==
  [][\A p \in Procs :
       (AcceptRollback(p) /\ NotPending(procs[p].rideID)) =>
         /\ rides' = rides
         /\ rickshaws' = rickshaws]_vars

(***************************** complete: the lookup *************************)
\* RequestRide stores any destination it is given; ELSEWHERE is not a catalog block.
AnyDestinations == {"PAHARTOLI", "ELSEWHERE"}

RequestTo(N, D) ==
  \E b \in PickupBlocks, d \in D :
    Len(rides) < N /\ Len(timers) < N /\ RequestRide(b, d)

NextLookup ==
  \/ RequestTo(MaxRides, AnyDestinations) \/ Register \/ Accept(OneAtATime)
  \/ Complete(OneAtATime, DropDistances)

SpecLookup == Init /\ [][NextLookup]_vars

\* C17: CompleteRide on a ride that does not exist, or whose destination is not a
\* catalog block, ends at its lookup: it issues no further statement and changes
\* no ride, no rickshaw and no points transaction.
C17_CompleteNotFoundChangesNothing ==
  [][\A p \in Procs, r \in RideIDs, d \in DropDistances :
       ( /\ CompleteSelect(p, r, d)
         /\ \/ r \notin DOMAIN rides
            \/ rides[r].destination \notin Blocks ) =>
         /\ procs'[p].op = "idle"
         /\ rides' = rides
         /\ rickshaws' = rickshaws
         /\ history' = history]_vars

\* an accepted ride to a destination outside the catalog, which no CompleteRide
\* has changed
C17_UnknownDestination ==
  \E r \in DOMAIN rides :
    /\ rides[r].destination \notin Blocks
    /\ rides[r].status = "ACCEPTED"
    /\ rides[r].dropTime = NoTime
    /\ \A p \in Procs : procs[p].op = "idle"

(***************************** adjust ***************************************)
\* C18: AdjustAward(r, newPoints) on an existing ride writes pointsAwarded =
\* newPoints and status COMPLETED, with delta = newPoints minus the award recorded
\* when it writes; it adds delta to the assigned rickshaw's balance and appends one
\* ADJUSTED transaction carrying delta.
C18_AdjustAppliesTheDelta ==
  [][\A p \in Procs :
       LET r == procs[p].rideID
           k == procs[p].rick
       IN /\ AdjustRide(p) =>
               /\ procs[p].m = procs[p].n - rides[r].pointsAwarded
               /\ rides'[r].pointsAwarded = procs[p].n
               /\ rides'[r].status = "COMPLETED"
          /\ AdjustCredit(p) =>
               /\ k \in RickshawIDs
               /\ rickshaws[k].registered
               /\ rickshaws'[k].totalPoints = rickshaws[k].totalPoints + procs[p].m
          /\ AdjustLog(p) =>
               history' = Append(history, HistoryRow(k, r, procs[p].m, 0, "ADJUSTED"))]_vars

(***************************** expire: what is selected *********************)
\* an EARNED transaction made before the threshold instant of a run with `days`
OlderThanThreshold(i, days) ==
  /\ history[i].transactionType = "EARNED"
  /\ history[i].transactionDate < expiryDate(days)

RECURSIVE SumOlder(_, _, _)
\* the sum of the EARNED amounts of rickshaw k older than the threshold, rows 1..i
SumOlder(i, k, days) ==
  IF i = 0 THEN 0
  ELSE SumOlder(i - 1, k, days)
       + (IF history[i].rickshawID = k /\ OlderThanThreshold(i, days)
          THEN history[i].pointsEarned ELSE 0)

\* C19: ExpireOlderThan selects exactly the rickshaws that have EARNED transactions
\* older than the threshold, each with the sum of those amounts (so it touches no
\* newer EARNED transaction); for each it lowers the balance by that sum and appends
\* one EXPIRED transaction carrying the negated sum.
C19_ExpiresExactlyTheOlder ==
  [][\A p \in Procs :
       /\ \A d \in ExpiryDays :
            ExpireSelect(p, d) =>
              LET sel == IF procs'[p].op = "expire" THEN procs'[p].rows ELSE <<>>
              IN /\ \A k \in RickshawIDs :
                      (\E g \in DOMAIN sel : sel[g].rickshawID = k)
                        <=> (\E i \in DOMAIN history :
                               history[i].rickshawID = k /\ OlderThanThreshold(i, d))
                 /\ \A g \in DOMAIN sel :
                      sel[g].expiredPoints = SumOlder(Len(history), sel[g].rickshawID, d)
       /\ ExpireDebit(p) =>
            LET row == Head(procs[p].rows) IN
            rickshaws[row.rickshawID].registered =>
              rickshaws'[row.rickshawID].totalPoints
                = rickshaws[row.rickshawID].totalPoints - row.expiredPoints
       /\ ExpireLog(p) =>
            LET row == Head(procs[p].rows) IN
            history' = Append(history, HistoryRow(row.rickshawID, NoRide,
                                                  0 - row.expiredPoints, 0, "EXPIRED"))]_vars

(***************************** GET /api/ride/pending ************************)
\* The rickshaws row of the model does not carry currentLat / currentLng (register
\* and the location update set them to whatever the caller sends).  The handler
\* reads them as a coordinate, given here by what calculateDistance makes of it:
\* for every block the distance, in whole metres, from the coordinate to the block.
\* CUET_CAMPUS and PAHARTOLI lie about 1.7 km apart, so a point about 1 km from
\* both exists for every pair of the distances below.
NearBlocks == {"CUET_CAMPUS", "PAHARTOLI"}
NearDistances == {1003, 1004, 1006}
Coordinates == [NearBlocks -> NearDistances]

\* calculateDistance(rickshaw.currentLat, rickshaw.currentLng, ride.latitude,
\* ride.longitude), for a row of the JOIN
calculateDistance(coord, blockID) == coord[blockID]

\* (distance / 1000).toFixed(2): the distance in km as text with two decimals, that
\* is, rounded to the nearest 10 m.  Represented by the number of hundredths of a km
\* the text denotes, which is also what parseFloat makes of it.
toFixed(distanceMeters) == (distanceMeters + 5) \div 10

\* the rows of  rides r JOIN locations l ON r.pickupBlock = l.blockID
\*              WHERE r.status = 'PENDING'
PendingJoined ==
  {r \in DOMAIN rides : rides[r].status = "PENDING" /\ rides[r].pickupBlock \in Blocks}

\* ... ORDER BY r.requestTime ASC: the orders in which sqlite may hand them over
\* (rows of equal requestTime come in an order the statement does not fix)
Fetches ==
  {s \in [1..Cardinality(PendingJoined) -> PendingJoined] :
     /\ \A i, j \in DOMAIN s : i # j => s[i] # s[j]
     /\ \A i, j \in DOMAIN s : i < j => rides[s[i]].requestTime <= rides[s[j]].requestTime}

\* rows.map(ride => ({ ...ride, distance: (distance / 1000).toFixed(2) })); meters is
\* the distance the row's latitude and longitude lie from the coordinate
ridesWithDistance(s, coord) ==
  [i \in DOMAIN s |->
     [rideID |-> s[i], requestTime |-> rides[s[i]].requestTime,
      meters |-> calculateDistance(coord, rides[s[i]].pickupBlock),
      distance |-> toFixed(calculateDistance(coord, rides[s[i]].pickupBlock))]]

\* (a, b) => parseFloat(a.distance) - parseFloat(b.distance)
compareDistance(a, b) == a.distance - b.distance

RECURSIVE insertSorted(_, _)
\* x goes behind every row that does not compare greater than it
insertSorted(s, x) ==
  IF s = <<>> THEN <<x>>
  ELSE IF compareDistance(s[Len(s)], x) <= 0
       THEN Append(s, x)
       ELSE Append(insertSorted(SubSeq(s, 1, Len(s) - 1), x), s[Len(s)])

RECURSIVE sort(_)
\* Array.prototype.sort with that comparator; the sort is stable (ECMAScript 2019)
sort(rows) ==
  IF rows = <<>> THEN <<>>
  ELSE insertSorted(sort(SubSeq(rows, 1, Len(rows) - 1)), rows[Len(rows)])

\* db.get('SELECT currentLat, currentLng FROM rickshaws WHERE rickshawID = ?'): no
\* row answers { rides: [] }; otherwise the callback issues the SELECT of the rides
PendingRickshaw(p, rick, coord) ==
  /\ server = "up"
  /\ procs[p].op = "idle"
  /\ procs' = IF rickshaws[rick].registered
              THEN [procs EXCEPT ![p] = [Idle EXCEPT !.op = "pending", !.pc = "rides",
                                                     !.rick = rick, !.coord = coord]]
              ELSE procs
  /\ UNCHANGED <<rides, rickshaws, history, txn, timers, now, server, accepted, refused, device>>

\* db.all(SELECT ... ORDER BY r.requestTime ASC) and its callback: map, sort
PendingRides(p) ==
  /\ server = "up"
  /\ procs[p].op = "pending" /\ procs[p].pc = "rides"
  /\ \E s \in Fetches :
       procs' = [procs EXCEPT ![p].pc = "answer",
                              ![p].rows = sort(ridesWithDistance(s, procs[p].coord))]
  /\ UNCHANGED <<rides, rickshaws, history, txn, timers, now, server, accepted, refused, device>>

\* res.json({ rides: ridesWithDistance }) has reached the caller
PendingAnswer(p) ==
  /\ server = "up"
  /\ procs[p].op = "pending" /\ procs[p].pc = "answer"
  /\ Finish(p)
  /\ UNCHANGED <<rides, rickshaws, history, txn, now, server, accepted, refused, device>>

Pending(P) ==
  \E p \in P :
    \/ \E k \in RickshawIDs, c \in Coordinates : PendingRickshaw(p, k, c)
    \/ PendingRides(p)
    \/ PendingAnswer(p)

\* at most N rides, from the blocks B
RequestFrom(N, B) ==
  \E b \in B, d \in Destinations :
    Len(rides) < N /\ Len(timers) < N /\ RequestRide(b, d)

\* the pending list: rides requested over time from two blocks, some timed out,
\* listed for a registered rickshaw
MaxPending == 3

NextPending ==
  \/ RequestFrom(MaxPending, NearBlocks) \/ Register \/ Tick \/ Watchdog
  \/ Pending(OneAtATime)

SpecPending == Init /\ [][NextPending]_vars

\* the list a caller of GET /api/ride/pending has been answered
Listed(p) == procs[p].op = "pending" /\ procs[p].pc = "answer"

\* C20: ListPendingFor returns the rides in non-decreasing order of the distance
\* between the querying rickshaw's coordinate and each ride's pickup coordinate, and
\* any two rides at equal distance appear in ascending request-time order.
C20_NearestFirstThenOldestFirst ==
  \A p \in Procs :
    Listed(p) =>
      \A i, j \in DOMAIN procs[p].rows :
        i < j =>
          /\ procs[p].rows[i].meters <= procs[p].rows[j].meters
          /\ procs[p].rows[i].meters = procs[p].rows[j].meters
               => procs[p].rows[i].requestTime <= procs[p].rows[j].requestTime

(***************************** the pending list: which rides ****************
 request stores req.body.blockID as it comes; the list JOINs the locations.   *)
AnyBlocks == {"CUET_CAMPUS", "ELSEWHERE"}

NextCatalog ==
  \/ RequestFrom(MaxRides, AnyBlocks) \/ Register \/ Watchdog \/ Pending(OneAtATime)

SpecCatalog == Init /\ [][NextCatalog]_vars

\* C21: for a registered rickshaw, ListPendingFor returns exactly the rides whose
\* status is PENDING at query time: every PENDING ride is in the list and no ride
\* in another status is.
C21_ListsExactlyThePending ==
  [][\A p \in Procs :
       PendingRides(p) =>
         {procs'[p].rows[i].rideID : i \in DOMAIN procs'[p].rows}
           = {r \in DOMAIN rides : rides[r].status = "PENDING"}]_vars

(***************************** the four timestamps **************************)
\* C22: in every reachable state, for every ride, the timestamps that are set are
\* ordered requestTime <= acceptTime <= pickupTime <= dropTime, and a later
\* timestamp is set only if every earlier one is set (pickupTime implies
\* acceptTime, dropTime implies pickupTime).
C22_TimestampsOrderedAndNested ==
  \A r \in DOMAIN rides :
    LET t == rides[r] IN
    /\ t.acceptTime # NoTime => t.requestTime <= t.acceptTime
    /\ t.pickupTime # NoTime => t.acceptTime # NoTime /\ t.acceptTime <= t.pickupTime
    /\ t.dropTime # NoTime => t.pickupTime # NoTime /\ t.pickupTime <= t.dropTime

(***************************** TIMEOUT **************************************)
\* one ride, its watchdog, and every operation that writes a ride, one call at a time
NextTimeout ==
  \/ Request(OneRide) \/ Watchdog \/ Accept(OneAtATime) \/ Pickup
  \/ Complete(OneAtATime, DropDistances) \/ Cancel(OneAtATime) \/ Adjust(OneAtATime)

SpecTimeout == Init /\ [][NextTimeout]_vars

\* C23: TIMEOUT is terminal: once a ride's status is TIMEOUT, no public operation
\* (AcceptRide, ConfirmPickup, CompleteRide, CancelRide, AdjustAward) and no
\* watchdog firing changes its status again.
C23_TimeoutIsTerminal ==
  [][\A r \in DOMAIN rides :
       rides[r].status = "TIMEOUT" =>
         r \in DOMAIN rides' /\ rides'[r].status = "TIMEOUT"]_vars

(***************************** storage failures *****************************
 complete, adjust, redeem and expire issue their writes as separate statements
 outside any transaction.  A statement can fail for a reason outside the program
 (disk full, I/O error, a locked file).                                        *)
\* the statement handler p is about to run has a callback that answers 500
FailureAnswered(p) ==
  \/ procs[p].op \in {"complete", "adjust"} /\ procs[p].pc = "ride"
  \/ procs[p].op = "redeem" /\ procs[p].pc = "debit"

\* the statement handler p is about to run was issued without a callback
FailureUncaught(p) ==
  \/ procs[p].op = "complete" /\ procs[p].pc \in {"credit", "log", "release"}
  \/ procs[p].op = "adjust" /\ procs[p].pc \in {"credit", "log"}
  \/ procs[p].op = "redeem" /\ procs[p].pc = "log"
  \/ procs[p].op = "expire" /\ procs[p].pc \in {"debit", "log"}

\* the next statement of handler p fails: its callback answers 500 and the handler
\* ends, or, without a callback, the error is uncaught.  No statement is undone.
StorageFailure(p) ==
  /\ server = "up"
  /\ FailureAnswered(p) \/ FailureUncaught(p)
  /\ IF FailureAnswered(p)
     THEN /\ Finish(p)
          /\ UNCHANGED <<rides, rickshaws, history, txn, now, server, accepted, refused, device>>
     ELSE Crash

Failure(P) == \E p \in P : StorageFailure(p)

\* the points operations on a registered rickshaw's ride, one call at a time, over a
\* storage that may fail
NextFailure ==
  \/ Complete(OneAtATime, DropDistances) \/ Adjust(OneAtATime) \/ Redeem(OneAtATime)
  \/ Expire(OneAtATime) \/ Tick \/ Failure(OneAtATime)

SpecFailure == InitPoints /\ [][NextFailure]_vars

\* the transactions of the log that name ride r
LoggedFor(r) == {i \in DOMAIN history : history[i].rideID = r}

\* C24: every mutating operation is one atomic unit: if CompleteRide, AdjustAward,
\* Redeem or ExpireOlderThan is interrupted by a storage failure between its writes,
\* no state is left where the ride row, the rickshaw's cached balance and the
\* points transaction log reflect only part of the operation.  (Once no operation
\* is under way, also after a failure, every balance is the signed sum of the
\* rickshaw's transactions and every ride that shows an award has a transaction.)
C24_NoPartialOperationIsLeft ==
  NoCallInFlight =>
    /\ \A k \in RickshawIDs :
         rickshaws[k].registered => rickshaws[k].totalPoints = SignedSum(Len(history), k)
    /\ \A r \in DOMAIN rides : rides[r].pointsAwarded > 0 => LoggedFor(r) # {}

(***************************** the identity of a new ride *******************)
\* requests arriving while one accept after another holds the connection's
\* transaction
NextRequest == Request(MaxRides) \/ Accept(OneAtATime) \/ Watchdog

SpecRequest == Init /\ [][NextRequest]_vars

\* C25: a successful RequestRide creates exactly one new ride with status PENDING,
\* no rickshawID and pointsAwarded 0, returns its identity, and that identity is
\* strictly greater than the identity of every ride created before it; existing
\* rides are unchanged.  (The rides created before it include those whose watchdog
\* is still armed; the identity returned is the one the new watchdog is keyed by.)
C25_RequestCreatesOneFreshRide ==
  [][\A b \in PickupBlocks, d \in Destinations :
       RequestRide(b, d) =>
         LET id == timers'[Len(timers')].rideID IN
         /\ DOMAIN rides' = DOMAIN rides \cup {id}
         /\ \A r \in DOMAIN rides : rides'[r] = rides[r] /\ r < id
         /\ rides'[id].status = "PENDING"
         /\ rides'[id].rickshawID = NULL
         /\ rides'[id].pointsAwarded = 0
         /\ \A i \in DOMAIN timers : timers[i].rideID < id]_vars

(***************************** references ***********************************)
\* C26: the ledger keeps referential integrity in every reachable state: every
\* non-null rides.rickshawID and every points transaction's rickshawID names a
\* registered rickshaw, and every ride's pickup and destination block name a
\* catalog location.
C26_ReferencesResolve ==
  /\ \A r \in DOMAIN rides :
       /\ rides[r].rickshawID # NULL =>
            rides[r].rickshawID \in RickshawIDs /\ rickshaws[rides[r].rickshawID].registered
       /\ rides[r].pickupBlock \in Blocks
       /\ rides[r].destination \in Blocks
  /\ \A i \in DOMAIN history :
       history[i].rickshawID \in RickshawIDs /\ rickshaws[history[i].rickshawID].registered

(***************************** the sign of the amounts **********************)
\* redeem tests !points only: any amount other than 0 passes, a negative one too
AnyAmounts == {5, -5}

RedeemOf(P, A) ==
  \E p \in P :
    \/ \E k \in RickshawIDs, n \in A : RedeemSelect(p, k, n)
    \/ RedeemDebit(p)
    \/ RedeemLog(p)

NextSigns ==
  \/ Complete(OneAtATime, DropDistances) \/ Adjust(OneAtATime)
  \/ RedeemOf(OneAtATime, AnyAmounts) \/ Expire(OneAtATime) \/ Tick

SpecSigns == InitPoints /\ [][NextSigns]_vars

C28_LogIsAppendOnly ==
  [][server' = "up" =>
       /\ Len(history') >= Len(history)
       /\ \A i \in DOMAIN history : history'[i] = history[i]]_vars

(***************************** accepts of unrelated rides *******************)
\* Two rides, each PENDING or timed out already; rickshaw p's call to accept ride p
\* has been received, for p = 1, 2, and neither has run a statement yet.
InitUnrelated ==
  /\ now = 1
  /\ \E b \in PickupBlocks, d \in Destinations, s1, s2 \in {"PENDING", "TIMEOUT"} :
       rides = <<[NewRide(b, d) EXCEPT !.status = s1], [NewRide(b, d) EXCEPT !.status = s2]>>
  /\ \E reg \in SUBSET RickshawIDs :
       rickshaws = [k \in RickshawIDs |-> IF k \in reg THEN NewRickshaw ELSE NoRickshaw]
  /\ history = <<>>
  /\ txn = NoTxn
  /\ procs = [p \in Procs |->
                IF p \in DOMAIN RickshawOrder /\ p \in RideIDs
                THEN [Idle EXCEPT !.op = "accept", !.pc = "begin", !.rideID = p,
                                  !.rick = RickshawOrder[p]]
                ELSE Idle]
  /\ timers = [r \in RideIDs |-> [rideID |-> r, pc |-> "armed", waitFor |-> {}, own |-> TRUE]]
  /\ server = "up"
  /\ accepted = [r \in RideIDs |-> <<>>]
  /\ refused = 0
  /\ device = DeviceBoot

SpecUnrelated == InitUnrelated /\ [][NextRace]_vars

\* C29: operations on unrelated rides do not interfere: when AcceptRide on ride X
\* by rickshaw A runs concurrently with AcceptRide on a different PENDING ride Y by
\* a different rickshaw B, both succeed and the final state is the same as running
\* them one after the other.  (A ride that is not TIMEOUT at the end was PENDING
\* when its call arrived: accept leaves a TIMEOUT ride as it is.)
C29_UnrelatedAcceptsBothSucceed ==
  (NoCallInFlight /\ \A r \in DOMAIN rides : rides[r].status # "TIMEOUT") =>
    \A p \in DOMAIN RickshawOrder \cap RideIDs :
      /\ accepted[p] = <<RickshawOrder[p]>>
      /\ rides[p].status = "ACCEPTED"
      /\ rides[p].rickshawID = RickshawOrder[p]
      /\ rides[p].acceptTime = now
      /\ rickshaws[RickshawOrder[p]].registered =>
           rickshaws[RickshawOrder[p]].status = "ON_RIDE"

(***************************** validation ***********************************
 Every route first tests the fields of its request and answers 400 before it
 issues any statement.  A request body is a record of the fields the caller sent. *)
\* body.f === undefined: the caller left the field out
Undefined(body, f) == f \notin DOMAIN body

\* !body.f, for a field that holds text
NotText(body, f) == Undefined(body, f) \/ body[f] = ""

\* !body.f, for a field that holds a number
NotNumber(body, f) == Undefined(body, f) \/ body[f] = 0

\* what the callers send: every request with all its fields, and the same request
\* with any of them left out
Partial(full) == UNION {{[f \in S |-> b[f]] : S \in SUBSET DOMAIN b} : b \in full}
SentCoordinates == {"sent"}
SentRideIDs == 1..OneRide
SentRickshawIDs == {RickshawOrder[1]}
SentPoints == {5}
RequestBodies == Partial([blockID : PickupBlocks, destination : Destinations])
AcceptBodies == Partial([rideID : SentRideIDs, rickshawID : SentRickshawIDs])
PickupBodies == Partial([rideID : SentRideIDs])
CompleteBodies == Partial([rideID : SentRideIDs, dropLat : SentCoordinates, dropLng : SentCoordinates])
LocationBodies == Partial([rickshawID : SentRickshawIDs, lat : SentCoordinates, lng : SentCoordinates])
AdjustBodies == Partial([rideID : SentRideIDs, newPoints : SentPoints])
CancelBodies == Partial([rideID : SentRideIDs, rickshawID : SentRickshawIDs])
RedeemBodies == Partial([rickshawID : SentRickshawIDs, points : {0} \cup SentPoints])

\* if (!blockID || !destination)
requestInvalid(body) == NotText(body, "blockID") \/ NotText(body, "destination")
\* if (!rideID || !rickshawID)
acceptInvalid(body) == NotNumber(body, "rideID") \/ NotText(body, "rickshawID")
\* if (!rideID)
pickupInvalid(body) == NotNumber(body, "rideID")
\* (a variant: the test forgets the drop coordinates)
completeInvalidRideOnly(body) == NotNumber(body, "rideID")

\* if (!rideID || dropLat === undefined || dropLng === undefined)
completeInvalid(body) ==
  NotNumber(body, "rideID") \/ Undefined(body, "dropLat") \/ Undefined(body, "dropLng")
\* if (!rickshawID || lat === undefined || lng === undefined)
locationInvalid(body) ==
  NotText(body, "rickshawID") \/ Undefined(body, "lat") \/ Undefined(body, "lng")
\* if (!rideID || newPoints === undefined)
adjustInvalid(body) == NotNumber(body, "rideID") \/ Undefined(body, "newPoints")
\* if (!rideID || !rickshawID)
cancelInvalid(body) == NotNumber(body, "rideID") \/ NotText(body, "rickshawID")
\* if (!rickshawID || !points)
redeemInvalid(body) == NotText(body, "rickshawID") \/ NotNumber(body, "points")

\* return res.status(400).json({ error: ... }): the answer is under way
Reject(p, route) ==
  /\ server = "up"
  /\ procs[p].op = "idle"
  /\ procs' = [procs EXCEPT ![p] = [Idle EXCEPT !.op = route, !.pc = "rejected"]]
  /\ UNCHANGED <<rides, rickshaws, history, txn, timers, now, server, accepted, refused, device>>

\* ... and has reached the caller
Rejected(p) ==
  /\ server = "up"
  /\ procs[p].pc = "rejected"
  /\ Finish(p)
  /\ UNCHANGED <<rides, rickshaws, history, txn, now, server, accepted, refused, device>>

\* UPDATE rickshaws SET currentLat = ?, currentLng = ?, lastUpdated = CURRENT_TIMESTAMP:
\* it writes no column of the model's rickshaws row
UpdateLocation(rick) ==
  /\ server = "up"
  /\ UNCHANGED vars

\* the routes, from the arrival of the request
PostRequest(p, body) ==
  IF requestInvalid(body) THEN Reject(p, "request")
  ELSE /\ Len(rides) < OneRide /\ Len(timers) < OneRide
       /\ RequestRide(body.blockID, body.destination)

PostAccept(p, body) ==
  IF acceptInvalid(body) THEN Reject(p, "accept")
  ELSE AcceptBegin(p, body.rideID, body.rickshawID)

PostPickup(p, body) ==
  IF pickupInvalid(body) THEN Reject(p, "pickup") ELSE ConfirmPickup(body.rideID)

\* (the distance is what calculateDistance makes of the coordinates sent)
PostComplete(p, body) ==
  IF completeInvalid(body) THEN Reject(p, "complete")
  ELSE \E d \in DropDistances : CompleteSelect(p, body.rideID, d)

PostLocation(p, body) ==
  IF locationInvalid(body) THEN Reject(p, "location") ELSE UpdateLocation(body.rickshawID)

PostAdjust(p, body) ==
  IF adjustInvalid(body) THEN Reject(p, "adjust")
  ELSE AdjustSelect(p, body.rideID, body.newPoints)

PostCancel(p, body) ==
  IF cancelInvalid(body) THEN Reject(p, "cancel")
  ELSE CancelRide(p, body.rideID, body.rickshawID)

PostRedeem(p, body) ==
  IF redeemInvalid(body) THEN Reject(p, "redeem")
  ELSE RedeemSelect(p, body.rickshawID, body.points)

\* the statements of a handler after its first
Continue(p) ==
  \/ AcceptSelect(p) \/ AcceptUpdate(p) \/ AcceptRickshaw(p) \/ AcceptCommit(p)
  \/ AcceptRollback(p)
  \/ CompleteRide(p) \/ CompleteCredit(p) \/ CompleteLog(p) \/ CompleteRelease(p)
  \/ AdjustRide(p) \/ AdjustCredit(p) \/ AdjustLog(p)
  \/ CancelRelease(p)
  \/ RedeemDebit(p) \/ RedeemLog(p)

NextValidation ==
  \/ \E k \in SentRickshawIDs : RegisterRickshaw(k)
  \/ \E p \in OneAtATime :
       \/ \E body \in RequestBodies : PostRequest(p, body)
       \/ \E body \in AcceptBodies : PostAccept(p, body)
       \/ \E body \in PickupBodies : PostPickup(p, body)
       \/ \E body \in CompleteBodies : PostComplete(p, body)
       \/ \E body \in LocationBodies : PostLocation(p, body)
       \/ \E body \in AdjustBodies : PostAdjust(p, body)
       \/ \E body \in CancelBodies : PostCancel(p, body)
       \/ \E body \in RedeemBodies : PostRedeem(p, body)
       \/ Continue(p)
       \/ Rejected(p)

SpecValidation == Init /\ [][NextValidation]_vars

\* the fields each operation requires
RequiredFields ==
  [request |-> {"blockID", "destination"}, accept |-> {"rideID", "rickshawID"},
   pickup |-> {"rideID"}, complete |-> {"rideID", "dropLat", "dropLng"},
   location |-> {"rickshawID", "lat", "lng"}, adjust |-> {"rideID", "newPoints"},
   cancel |-> {"rideID", "rickshawID"}, redeem |-> {"rickshawID", "points"}]

\* a required field is missing from the request
FieldMissing(route, body) == \E f \in RequiredFields[route] : f \notin DOMAIN body

\* p's request is answered 400 and no ride, rickshaw or transaction has changed, no
\* watchdog has been armed
RejectedUnchanged(p) ==
  /\ procs'[p].pc = "rejected"
  /\ rides' = rides /\ rickshaws' = rickshaws /\ history' = history
  /\ [i \in DOMAIN timers' |-> timers'[i].rideID] = [i \in DOMAIN timers |-> timers[i].rideID]

\* C30: a request rejected as a ValidationError (a required field missing in
\* RequestRide, AcceptRide, ConfirmPickup, CompleteRide, CancelRide, Redeem,
\* AdjustAward or UpdateDriverLocation) changes no ride, rickshaw or points
\* transaction and arms no watchdog.
C30_RejectedRequestChangesNothing ==
  [][\A p \in Procs :
       /\ \A b \in RequestBodies : (FieldMissing("request", b) /\ PostRequest(p, b)) => RejectedUnchanged(p)
       /\ \A b \in AcceptBodies : (FieldMissing("accept", b) /\ PostAccept(p, b)) => RejectedUnchanged(p)
       /\ \A b \in PickupBodies : (FieldMissing("pickup", b) /\ PostPickup(p, b)) => RejectedUnchanged(p)
       /\ \A b \in CompleteBodies : (FieldMissing("complete", b) /\ PostComplete(p, b)) => RejectedUnchanged(p)
       /\ \A b \in LocationBodies : (FieldMissing("location", b) /\ PostLocation(p, b)) => RejectedUnchanged(p)
       /\ \A b \in AdjustBodies : (FieldMissing("adjust", b) /\ PostAdjust(p, b)) => RejectedUnchanged(p)
       /\ \A b \in CancelBodies : (FieldMissing("cancel", b) /\ PostCancel(p, b)) => RejectedUnchanged(p)
       /\ \A b \in RedeemBodies : (FieldMissing("redeem", b) /\ PostRedeem(p, b)) => RejectedUnchanged(p)
       /\ Rejected(p) => rides' = rides /\ rickshaws' = rickshaws /\ history' = history
                         /\ Len(timers') = Len(timers)]_vars

\* a request for a ride that exists, by a registered rickshaw, has been rejected
C30_RejectedWithRideAndRickshaw ==
  /\ \E p \in Procs : procs[p].pc = "rejected" /\ procs[p].op = "accept"
  /\ rides # <<>>
  /\ \E k \in RickshawIDs : rickshaws[k].registered

(***************************** one active ride per rickshaw *****************)
\* the rides a rickshaw holds: assigned to it and ACCEPTED or PICKUP
ActiveRidesOf(k) ==
  {r \in DOMAIN rides : rides[r].rickshawID = k /\ rides[r].status \in {"ACCEPTED", "PICKUP"}}

\* C31: in every reachable state a rickshaw is assigned to at most one ride whose
\* status is ACCEPTED or PICKUP: AcceptRide does not let a rickshaw that already
\* holds an active ride take a second one.
C31_AtMostOneActiveRide ==
  \A k \in RickshawIDs : Cardinality(ActiveRidesOf(k)) <= 1

(***************************** registering again ****************************)
\* C32: RegisterOrUpdateDriver on an already registered rickshaw id is an update
\* that keeps that rickshaw's point balance and status: re-registering a rickshaw
\* with a positive balance or with status ON_RIDE leaves totalPoints and status as
\* they were.
C32_ReRegisterKeepsBalanceAndStatus ==
  [][\A k \in RickshawIDs :
       (RegisterRickshaw(k) /\ rickshaws[k].registered) =>
         /\ rickshaws'[k].totalPoints = rickshaws[k].totalPoints
         /\ rickshaws'[k].status = rickshaws[k].status]_vars

(***************************** concurrent redemptions ***********************)
\* a rickshaw that earned 10 points, and callers each redeeming all 10 of them
WholeBalance == {10}

NextRedeem == Complete(OneAtATime, DropDistances) \/ RedeemOf(Procs, WholeBalance)

SpecRedeem == InitPoints /\ [][NextRedeem]_vars

\* C33: two concurrent Redeem calls on the same rickshaw whose amounts together
\* exceed its balance do not both succeed: in every interleaving of their balance
\* read and debit steps the balance never drops below zero and each returned new
\* balance (the balance read minus the amount) equals the cached balance at the
\* moment that call completes.
C33_ConcurrentRedeemsKeepTheBalance ==
  [][\A p \in Procs :
       RedeemDebit(p) =>
         /\ rickshaws'[procs[p].rick].totalPoints >= 0
         /\ procs[p].m - procs[p].n = rickshaws'[procs[p].rick].totalPoints]_vars

(***************************************************************************)
(* C34: the cached balance under completions, redemptions, adjustments and  *)
(* expiries, one call at a time                                             *)
(***************************************************************************)
\* C34: in every reachable state the cached point balance totalPoints of every
\* rickshaw is at least 0, after any sequence of CompleteRide, Redeem,
\* AdjustAward and ExpireOlderThan.
C34_BalanceNeverNegative ==
  \A k \in RickshawIDs : rickshaws[k].totalPoints >= 0

(***************************************************************************)
(* C35: how many times a ride is scored                                     *)
(***************************************************************************)
EarnedRowsOf(r) ==
  {i \in DOMAIN history : history[i].rideID = r /\ history[i].transactionType = "EARNED"}

\* C35: in every reachable state every ride has at most one EARNED transaction:
\* a CompleteRide on a ride that was already completed credits nothing again.
C35_RideScoredAtMostOnce ==
  \A r \in DOMAIN rides : Cardinality(EarnedRowsOf(r)) <= 1

(***************************************************************************)
(* C36: a ride's pointsAwarded against the transactions that reference it,  *)
(* under adjustments of a ride that was completed once                      *)
(***************************************************************************)
\* the state after ride 1 was completed at its destination: 10 points, one EARNED
\* transaction, the rickshaw released
InitAwarded ==
  /\ now = 1
  /\ \E b \in PickupBlocks, d \in Destinations :
       rides = <<[NewRide(b, d) EXCEPT !.status = "COMPLETED",
                                       !.rickshawID = RickshawOrder[1],
                                       !.pointsAwarded = calculatePoints(0),
                                       !.acceptTime = now, !.pickupTime = now,
                                       !.dropTime = now]>>
  /\ rickshaws = [k \in RickshawIDs |->
                    IF k = RickshawOrder[1]
                    THEN [NewRickshaw EXCEPT !.totalPoints = calculatePoints(0)]
                    ELSE NoRickshaw]
  /\ history = <<HistoryRow(RickshawOrder[1], 1, calculatePoints(0), 0, "EARNED")>>
  /\ txn = NoTxn
  /\ procs = [p \in Procs |-> Idle]
  /\ timers = <<[rideID |-> 1, pc |-> "armed", waitFor |-> {}, own |-> TRUE]>>
  /\ server = "up"
  /\ accepted = [r \in RideIDs |-> IF r = 1 THEN <<RickshawOrder[1]>> ELSE <<>>]
  /\ refused = 0
  /\ device = DeviceBoot

NextAdjust == Adjust(Procs) \/ Tick

SpecAdjust == InitAwarded /\ [][NextAdjust]_vars

RECURSIVE AwardRowsSum(_, _)
\* the sum of the EARNED and ADJUSTED amounts of the transactions 1..i that
\* reference ride r
AwardRowsSum(i, r) ==
  IF i = 0 THEN 0
  ELSE AwardRowsSum(i - 1, r)
       + (IF history[i].rideID = r /\ history[i].transactionType \in {"EARNED", "ADJUSTED"}
          THEN history[i].pointsEarned ELSE 0)

\* C36: in every state with no call in flight, for every ride, the EARNED and
\* ADJUSTED amounts of the transactions that reference the ride add up to the
\* ride's pointsAwarded, also after repeated or concurrent AdjustAward calls.
C36_AwardMatchesItsTransactions ==
  NoCallInFlight =>
    \A r \in DOMAIN rides : AwardRowsSum(Len(history), r) = rides[r].pointsAwarded

(***************************************************************************)
(* C37: a ride reopened by a cancel, with fairness                          *)
(***************************************************************************)
\* One ride and one call at a time.
NextReopen ==
  Request(OneRide) \/ Accept(OneAtATime) \/ Cancel(OneAtATime) \/ Watchdog

\* the statements a call in progress has still to run
CallsContinue ==
  \E p \in Procs :
    \/ AcceptSelect(p) \/ AcceptUpdate(p) \/ AcceptRickshaw(p)
    \/ AcceptCommit(p) \/ AcceptRollback(p) \/ CancelRelease(p)

\* The event loop runs every timer that is due and every callback that is queued:
\* a watchdog that is armed fires, the UPDATE it issued is executed, and a call
\* that was received runs to its answer. No call is owed by any client.
SpecReopen ==
  Init /\ [][NextReopen]_vars /\ WF_vars(Watchdog) /\ WF_vars(CallsContinue)

\* C37: a ride that is PENDING is eventually ACCEPTED or TIMEOUT (a ride whose
\* row was removed by a rollback is not followed further), also when it is
\* PENDING because CancelRide reopened it after its watchdog had fired.
C37_PendingIsEventuallyAcceptedOrTimedOut ==
  \A r \in 1..OneRide :
    (RideExists(r) /\ rides[r].status = "PENDING")
      ~> (~ RideExists(r) \/ rides[r].status \in {"ACCEPTED", "TIMEOUT"})

(***************************************************************************)
(* C38: what a redemption does to the balance                               *)
(***************************************************************************)
\* C38: every debit a Redeem call makes is of an amount above 0 and leaves the
\* rickshaw's balance strictly lower than before: a call with a zero or negative
\* amount is rejected before it changes anything.
C38_RedeemNeverRaisesTheBalance ==
  [][\A p \in Procs :
       RedeemDebit(p) =>
         /\ procs[p].n > 0
         /\ rickshaws'[procs[p].rick].totalPoints < rickshaws[procs[p].rick].totalPoints]_vars

(***************************************************************************)
(* C39: the driver device (the sketch that follows the server in the file)  *)
(***************************************************************************)
\* The server is the device's environment here: every call the device makes is
\* answered with any of the answers its route can give, and the tables stay as
\* they are.
backend == <<rides, rickshaws, history, txn, procs, timers, now, server, accepted, refused>>

\* Location locations[]
DeviceLocations == <<"CUET_CAMPUS", "PAHARTOLI", "NOAPARA", "RAOJAN">>

Known(locationName) == \E i \in DOMAIN DeviceLocations : DeviceLocations[i] = locationName

\* setTargetLocation: the first entry whose name is, or contains, locationName
\* becomes the target (every name contains the empty string, so "" selects the
\* first entry); a name that matches nothing leaves the target as it was.
setTargetLocation(locationName) ==
  IF locationName = NoPlace THEN DeviceLocations[1]
  ELSE IF Known(locationName) THEN locationName
  ELSE device.targetLocation

\* calculateDistance(currentLat, currentLng, targetLocation.lat, targetLocation.lng)
\* is at most 100
WithinHundredMeters ==
  device.position.place = device.targetLocation /\ device.position.range \in {"at", "near"}

\* the HTTP status of an answer: 200, or an error
HttpCodes == {200, 400}

\* A body built from an empty currentRideID, {"rideID":}, is not JSON: the server's
\* body parser answers 400 and no handler runs.
CodesFor(rideID) == IF rideID = NoRide THEN {400} ELSE HttpCodes

\* what GET /api/ride/pending answers: the first ride of the list, or no ride
Offers == [rideID : RideIDs \cup {NoRide}, pickupBlock : PickupBlocks, destination : Destinations]

\* loop(), not on a ride: checkForRideRequests shows the first ride of the list
\* and keeps its id, pickup and destination, unless it is the one already kept.
checkForRideRequests(offer) ==
  /\ ~ device.onActiveRide
  /\ offer.rideID # NoRide
  /\ offer.rideID # device.currentRideID \/ device.currentRideID = NoRide
  /\ device' = [device EXCEPT !.currentRideID = offer.rideID,
                              !.pickupLocation = offer.pickupBlock,
                              !.destinationLocation = offer.destination]
  /\ UNCHANGED backend

\* loop(), not on a ride: checkWebAppAcceptance finds the ride it keeps ACCEPTED
\* and assigned to this rickshaw (the ride was accepted for it from the web page).
checkWebAppAcceptance(offer) ==
  /\ ~ device.onActiveRide
  /\ device.currentRideID # NoRide
  /\ offer.rideID = device.currentRideID
  /\ LET pickup == IF device.pickupLocation = NoPlace
                   THEN offer.pickupBlock ELSE device.pickupLocation
         dest == IF device.destinationLocation = NoPlace
                 THEN offer.destination ELSE device.destinationLocation
     IN device' = [device EXCEPT !.pickupLocation = pickup,
                                 !.destinationLocation = dest,
                                 !.onActiveRide = TRUE,
                                 !.pickupConfirmed = FALSE,
                                 !.targetLocation = setTargetLocation(pickup)]
  /\ UNCHANGED backend

\* the reset at the end of a ride
ResetRide ==
  [device EXCEPT !.onActiveRide = FALSE, !.pickupConfirmed = FALSE,
                 !.currentRideID = NoRide, !.pickupLocation = NoPlace,
                 !.destinationLocation = NoPlace]

\* loop(), on a ride: checkRideStatusUpdates reads the status of the ride it keeps;
\* PICKUP confirms the pickup, COMPLETED resets the device.
checkRideStatusUpdates(status) ==
  /\ device.onActiveRide
  /\ device.currentRideID # NoRide
  /\ IF status = "PICKUP" /\ ~ device.pickupConfirmed
     THEN device' = [device EXCEPT !.pickupConfirmed = TRUE,
                                   !.targetLocation =
                                      setTargetLocation(device.destinationLocation)]
     ELSE IF status = "COMPLETED"
     THEN device' = ResetRide
     ELSE device' = device
  /\ UNCHANGED backend

\* what POST /api/ride/accept answers: success=true, success=false, or an error
AcceptAnswers == {"success", "taken", "error"}

\* command ACCEPT: acceptRide
acceptRide(answer) ==
  /\ ~ (device.currentRideID = NoRide \/ device.onActiveRide)
  /\ LET sent == [device EXCEPT !.posted = [route |-> "accept",
                                            rideID |-> device.currentRideID]]
     IN device' =
          IF answer = "success"
          THEN [sent EXCEPT !.onActiveRide = TRUE, !.pickupConfirmed = FALSE,
                            !.targetLocation = setTargetLocation(device.pickupLocation)]
          ELSE IF answer = "taken"
          THEN [sent EXCEPT !.currentRideID = NoRide]
          ELSE sent
  /\ UNCHANGED backend

\* command REJECT
rejectRide ==
  /\ device' = [device EXCEPT !.currentRideID = NoRide]
  /\ UNCHANGED backend

\* command PICKUP: confirmPickup posts {rideID: currentRideID} when it is on a
\* ride, the pickup is not confirmed and the target is within 100 m
confirmPickup(httpCode) ==
  /\ ~ (~ device.onActiveRide \/ device.pickupConfirmed)
  /\ WithinHundredMeters
  /\ httpCode \in CodesFor(device.currentRideID)
  /\ LET sent == [device EXCEPT !.posted = [route |-> "pickup",
                                            rideID |-> device.currentRideID]]
     IN device' =
          IF httpCode = 200
          THEN [sent EXCEPT !.pickupConfirmed = TRUE,
                            !.targetLocation = setTargetLocation(device.destinationLocation)]
          ELSE sent
  /\ UNCHANGED backend

\* command COMPLETE: completeRide posts the ride id and the drop point when it is
\* on a ride, the pickup is confirmed and the target is within 100 m; 200 resets
\* the device
completeRide(httpCode) ==
  /\ ~ (~ device.onActiveRide \/ ~ device.pickupConfirmed)
  /\ WithinHundredMeters
  /\ httpCode \in CodesFor(device.currentRideID)
  /\ LET sent == [device EXCEPT !.posted = [route |-> "complete",
                                            rideID |-> device.currentRideID]]
     IN device' =
          IF httpCode = 200
          THEN [ResetRide EXCEPT !.posted = sent.posted]
          ELSE sent
  /\ UNCHANGED backend

\* loop(), on a ride: simulateMovement moves towards the target while it is more
\* than 5 m away
simulateMovement ==
  /\ device.onActiveRide
  /\ LET here == device.position
         target == device.targetLocation
     IN /\ ~ (here.place = target /\ here.range = "at")
        /\ \E range \in {"far", "near", "at"} :
             /\ here.place # target => range = "far"
             /\ (here.place = target /\ here.range = "far") => range \in {"far", "near"}
             /\ (here.place = target /\ here.range = "near") => range \in {"near", "at"}
             /\ device' = [device EXCEPT !.position = [place |-> target, range |-> range]]
  /\ UNCHANGED backend

StatusAnswers == {"ACCEPTED", "PICKUP", "COMPLETED", "PENDING_REVIEW"}

NextDevice ==
  \/ \E offer \in Offers : checkForRideRequests(offer)
  \/ \E offer \in Offers : checkWebAppAcceptance(offer)
  \/ \E status \in StatusAnswers : checkRideStatusUpdates(status)
  \/ \E answer \in AcceptAnswers : acceptRide(answer)
  \/ rejectRide
  \/ \E httpCode \in HttpCodes : confirmPickup(httpCode)
  \/ \E httpCode \in HttpCodes : completeRide(httpCode)
  \/ simulateMovement

SpecDevice == Init /\ [][NextDevice]_vars

\* the device keeps the id of a ride it has accepted
HoldsAcceptedRide == device.onActiveRide /\ device.currentRideID # NoRide

Cleared(d) ==
  /\ d.currentRideID = NoRide
  /\ ~ d.onActiveRide
  /\ ~ d.pickupConfirmed

\* C39: the device posts ConfirmPickup only while it holds an accepted ride whose
\* pickup is not confirmed; it posts CompleteRide only when the pickup is confirmed
\* and its target is within 100 m; and when a CompleteRide is answered 200 it
\* clears its ride id and both flags, so that it can accept the next ride.
C39_DeviceFollowsTheLifecycle ==
  [][\A httpCode \in HttpCodes :
       /\ confirmPickup(httpCode) => (HoldsAcceptedRide /\ ~ device.pickupConfirmed)
       /\ completeRide(httpCode) =>
            /\ device.pickupConfirmed /\ WithinHundredMeters
            /\ httpCode = 200 => Cleared(device')]_vars

====
